---- MODULE Spec2Model ----
(***************************************************************************)
(* A model of addon.js, the IPTV Stremio addon: the two in-memory TTL      *)
(* caches (getData, fetchLogos), the settings store (POST /configure,      *)
(* saveConfig), and the catalog / meta / stream handlers with the helpers  *)
(* they use (extractGuideDetails, getPoster, toMeta, getGuideInfo).        *)
(*                                                                         *)
(* JavaScript strings are sequences of tokens (each token an atomic piece  *)
(* of text), so that startsWith(), replace(), split(), toLowerCase() and   *)
(* includes() are computed and not assumed.  null and undefined are the    *)
(* one-token sequences Null and Undefined, whose tokens occur in no text.  *)
(* An optional object is a sequence of length 0 (absent) or 1 (present).   *)
(***************************************************************************)
EXTENDS Integers, Sequences, FiniteSets, TLC

VARIABLES
    now,            \* Date.now()
    nticks,         \* number of clock advances so far (bounded by MaxTicks)
    remote,         \* what the four upstream endpoints currently serve
    cache,          \* let cache = { channels, streams, guides }
    lastFetch,      \* let lastFetch
    logosCache,     \* let logosCache
    logosLastFetch, \* let logosLastFetch
    pc,             \* per getData() invocation in progress: idle / fetching
    owner,          \* per invocation: the code awaiting it
    got,            \* per invocation and endpoint: the response received so far
    cyc,            \* per invocation: the fetch cycle it started
    seen,           \* per invocation: the fetch cycles in flight when it was entered
    nGets,          \* per endpoint: number of GETs issued so far
    lastWriter,     \* the fetch cycle whose assignment to cache was the latest
    outcome,        \* how the getData() invocation that settled last ended
    lpc,            \* per fetchLogos() invocation in progress: idle / fetching
    nLogoGets,      \* number of GETs of logos.json issued so far
    loutcome,       \* how the fetchLogos() invocation that settled last ended
    config,         \* let config = { countries, genres }
    file,           \* config.json
    lastSaved,      \* the settings of the last submission that was persisted
    h,              \* the catalog request in progress: its position and locals
    req,            \* the request handled last
    resp            \* the response sent last

cacheVars == <<cache, lastFetch, pc, owner, got, cyc, seen, nGets, lastWriter, outcome>>
logoVars  == <<logosCache, logosLastFetch, lpc, nLogoGets, loutcome>>
envVars   == <<now, nticks, remote>>
confVars  == <<config, file, lastSaved>>
reqVars   == <<h, req, resp>>
vars      == <<envVars, cacheVars, logoVars, confVars, reqVars>>

----------------------------------------------------------------------------
(* Bounds of the model *)
MaxCalls == 2
MaxLogoCalls == 1
MaxTicks == 2
MaxCycles == 3
MaxChannels == 2
MaxLogos == 2

(* Program constants *)
TTL == 60 * 60 * 1000
LOGOS_TTL == 24 * 60 * 60 * 1000

None == << >>
Some(x) == <<x>>

----------------------------------------------------------------------------
(* JavaScript values *)

Undefined == <<"(undefined)">>
Null == <<"(null)">>
EmptyStr == << >>

(* An array of strings is a sequence of strings; NoArray is undefined    *)
(* where an array is expected (channel.categories, logo.tags).           *)
NoArray == <<Undefined>>

(* ToBoolean of a value that is a string, null or undefined. *)
Truthy(v) == v # Undefined /\ v # Null /\ v # EmptyStr

(* a || b *)
OrElse(a, b) == IF Truthy(a) THEN a ELSE b

(* Letters in both cases; every other token has no case. *)
CasePairs ==
    { <<"a", "A">>, <<"b", "B">>, <<"u", "U">>, <<"d", "D">>,
      <<"svg", "SVG">>, <<"iptv-", "IPTV-">>, <<"country-", "COUNTRY-">> }
UpperTok(t) == IF \E p \in CasePairs : p[1] = t
               THEN (CHOOSE p \in CasePairs : p[1] = t)[2] ELSE t
LowerTok(t) == IF \E p \in CasePairs : p[2] = t
               THEN (CHOOSE p \in CasePairs : p[2] = t)[1] ELSE t
ToUpperCase(s) == [i \in 1..Len(s) |-> UpperTok(s[i])]
ToLowerCase(s) == [i \in 1..Len(s) |-> LowerTok(s[i])]

StartsWith(s, p) == Len(s) >= Len(p) /\ SubSeq(s, 1, Len(p)) = p
EndsWith(s, p) == Len(s) >= Len(p) /\ SubSeq(s, Len(s) - Len(p) + 1, Len(s)) = p

(* s.indexOf(p) + 1: the first place where p occurs in s, 0 if nowhere. *)
IndexOf(s, p) ==
    LET at == {i \in 1..(Len(s) - Len(p) + 1) : SubSeq(s, i, i + Len(p) - 1) = p}
    IN IF at = {} THEN 0 ELSE CHOOSE i \in at : \A j \in at : i <= j
Includes(s, q) == IndexOf(s, q) # 0

(* s with the prefix p taken off, if it starts with p. *)
StripPrefixOnly(s, p) == IF StartsWith(s, p) THEN SubSeq(s, Len(p) + 1, Len(s)) ELSE s

(* s.replace(p, ''): the first occurrence of p removed, wherever it is. *)
ReplaceFirst(s, p) ==
    LET i == IndexOf(s, p)
    IN IF i = 0 THEN s ELSE SubSeq(s, 1, i - 1) \o SubSeq(s, i + Len(p), Len(s))

RECURSIVE SplitFrom(_, _, _)
(* s.split(','), from position i with the piece cur collected so far. *)
SplitFrom(s, i, cur) ==
    IF i > Len(s) THEN <<cur>>
    ELSE IF s[i] = "," THEN <<cur>> \o SplitFrom(s, i + 1, << >>)
    ELSE SplitFrom(s, i + 1, Append(cur, s[i]))
Split(s) == SplitFrom(s, 1, << >>)

(* (field || '').split(',').filter(Boolean), lines 255-256 *)
ParseList(field) ==
    LET NonEmpty(w) == Truthy(w)
    IN SelectSeq(Split(OrElse(field, EmptyStr)), NonEmpty)

(* The elements of a sequence, as a set. *)
Range(s) == {s[i] : i \in 1..Len(s)}

----------------------------------------------------------------------------
(* Helpers, lines 72-123 *)

(* extractGuideDetails, lines 93-100.  guide: the result of guides.find(). *)
extractGuideDetails_nullish(guide) ==
    IF guide = None THEN None
    ELSE Some([nowPlaying |-> IF guide[1].now \in {Undefined, Null}
                              THEN <<"Unknown">> ELSE guide[1].now,
               next |-> IF guide[1].next \in {Undefined, Null}
                        THEN <<"Unknown">> ELSE guide[1].next,
               currentShowImage |-> IF guide[1].image \in {Undefined, Null}
                                    THEN Null ELSE guide[1].image])
extractGuideDetails(guide) ==
    IF guide = None THEN None
    ELSE Some([nowPlaying |-> OrElse(guide[1].now, <<"Unknown">>),
               next |-> OrElse(guide[1].next, <<"Unknown">>),
               currentShowImage |-> OrElse(guide[1].image, Null)])

(* guides.find(g => g.channel === channelID), line 122; streams.find, line 335;  *)
(* channels.find(c => c.id === channelId), line 322                             *)
FindLast(list, Test(_)) ==
    LET at == {i \in 1..Len(list) : Test(list[i])}
    IN IF at = {} THEN None ELSE Some(list[CHOOSE i \in at : \A j \in at : i >= j])
Find(list, Test(_)) ==
    LET at == {i \in 1..Len(list) : Test(list[i])}
    IN IF at = {} THEN None ELSE Some(list[CHOOSE i \in at : \A j \in at : i <= j])

RECURSIVE InsertByWidth(_, _)
(* x put into the list, sorted by width descending, behind its equals. *)
InsertByWidth(sorted, x) ==
    IF sorted = << >> THEN <<x>>
    ELSE IF Head(sorted).width - x.width < 0 THEN <<x>> \o sorted
    ELSE <<Head(sorted)>> \o InsertByWidth(Tail(sorted), x)

RECURSIVE SortByWidthFrom(_, _, _)
SortByWidthFrom(list, i, sorted) ==
    IF i > Len(list) THEN sorted
    ELSE SortByWidthFrom(list, i + 1, InsertByWidth(sorted, list[i]))
(* candidates.sort((a, b) => b.width - a.width), line 84: a stable sort *)
SortByWidthDesc(list) == SortByWidthFrom(list, 1, << >>)

(* The filter of lines 77-81. *)
IsCandidate(l, channel) ==
    /\ l.channel = channel.id
    /\ l.tags # NoArray /\ <<"horizontal">> \in Range(l.tags)
    /\ (l.format = Undefined \/ ToLowerCase(l.format) # <<"svg">>)

TemplateUrl(id) == <<"https://iptv-org.github.io/logo/">> \o id \o <<".png">>
Placeholder == <<"https://dl.strem.io/addon-background-landscape.jpg">>

(* getPoster, lines 72-91; logos: what fetchLogos() returns. *)
PosterFromLogos(channel, logos) ==
    LET Cand(l) == IsCandidate(l, channel)
        candidates == SelectSeq(logos, Cand)
    IN IF Len(candidates) # 0 THEN SortByWidthDesc(candidates)[1].url
       ELSE IF Truthy(channel.logo) /\ ~EndsWith(channel.logo, <<".svg">>) THEN channel.logo
       ELSE IF Truthy(channel.id) THEN TemplateUrl(channel.id)
       ELSE Placeholder
NeedsLogos(guideDetails) ==
    ~(guideDetails # None /\ Truthy(guideDetails[1].currentShowImage))
getPoster_logosFirst(channel, guideDetails, logos) ==
    LET Cand(l) == IsCandidate(l, channel)
    IN IF SelectSeq(logos, Cand) = << >> /\ ~NeedsLogos(guideDetails)
       THEN guideDetails[1].currentShowImage
       ELSE PosterFromLogos(channel, logos)
getPoster(channel, guideDetails, logos) ==
    IF ~NeedsLogos(guideDetails) THEN guideDetails[1].currentShowImage
    ELSE PosterFromLogos(channel, logos)

(* toMeta, lines 102-118.  Of the description, the part made from the    *)
(* guide details (line 115); the token " . Next: " is the text between   *)
(* the two titles.                                                        *)
toMeta(channel, guideDetails, logos) ==
    LET poster == getPoster(channel, guideDetails, logos)
    IN [id |-> <<"iptv-">> \o channel.id,
        type |-> <<"tv">>,
        name |-> channel.name,
        poster |-> poster,
        posterShape |-> <<"landscape">>,
        background |-> poster,
        logo |-> poster,
        nowNext |-> IF guideDetails = None THEN Null
                    ELSE <<"Now: ">> \o guideDetails[1].nowPlaying
                         \o <<" . Next: ">> \o guideDetails[1].next]

(* Object.fromEntries(new URLSearchParams(extra)), line 289: extra is the  *)
(* list of its key=value pairs, and a key given twice keeps its last value. *)
Params(extra) ==
    LET Last(key) ==
          LET IsKey(kv) == kv[1] = key
              hit == FindLast(extra, IsKey)
          IN IF hit = None THEN Undefined ELSE hit[1][2]
    IN [genre |-> Last("genre"), search |-> Last("search")]

CountryPrefix == <<"iptv-", "country-">>

(* The filters of the catalog handler, lines 292-307. *)
CatalogResults_noStreamFilter(channels, streams, id, params, genres) ==
    LET InCountry(c) == c.country = ToUpperCase(ReplaceFirst(id, CountryPrefix))
        r1 == IF StartsWith(id, CountryPrefix) THEN SelectSeq(channels, InCountry) ELSE channels
        Allowed(c) == c.categories # NoArray /\ \E g \in Range(c.categories) : g \in Range(genres)
        r2 == IF Len(genres) # 0 THEN SelectSeq(r1, Allowed) ELSE r1
        HasGenre(c) == c.categories # NoArray /\ params.genre \in Range(c.categories)
        r3 == IF Truthy(params.genre) THEN SelectSeq(r2, HasGenre) ELSE r2
        Matches(c) == Includes(ToLowerCase(c.name), ToLowerCase(params.search))
        r4 == IF Truthy(params.search) THEN SelectSeq(r3, Matches) ELSE r3
    IN r4
CatalogResults(channels, streams, id, params, genres) ==
    LET HasStream(c) == \E i \in 1..Len(streams) : streams[i].channel = c.id
        r0 == SelectSeq(channels, HasStream)
        InCountry(c) == c.country = ToUpperCase(ReplaceFirst(id, CountryPrefix))
        r1 == IF StartsWith(id, CountryPrefix) THEN SelectSeq(r0, InCountry) ELSE r0
        Allowed(c) == c.categories # NoArray /\ \E g \in Range(c.categories) : g \in Range(genres)
        r2 == IF Len(genres) # 0 THEN SelectSeq(r1, Allowed) ELSE r1
        HasGenre(c) == c.categories # NoArray /\ params.genre \in Range(c.categories)
        r3 == IF Truthy(params.genre) THEN SelectSeq(r2, HasGenre) ELSE r2
        Matches(c) == Includes(ToLowerCase(c.name), ToLowerCase(params.search))
        r4 == IF Truthy(params.search) THEN SelectSeq(r3, Matches) ELSE r3
    IN r4

----------------------------------------------------------------------------
(* The upstream *)

Kinds == {"channels", "streams", "guides"}

ChannelA == [id |-> <<"a">>, name |-> <<"A">>, country |-> <<"U">>,
             categories |-> << <<"News">> >>, logo |-> Undefined]
ChannelB == [id |-> <<"b">>, name |-> <<"B">>, country |-> <<"D">>,
             categories |-> << <<"Kids">> >>, logo |-> <<"b.png">>]
GuideA(show) == [channel |-> <<"a">>, now |-> <<show>>, next |-> Undefined,
                 image |-> <<show, ".jpg">>]

(* Two states of the upstream: the guide changes, the channels do not. *)
Revision1 ==
    [channels |-> <<ChannelA, ChannelB>>,
     streams |-> <<[channel |-> <<"a">>, url |-> <<"a1.m3u8">>],
                   [channel |-> <<"b">>, url |-> <<"b1.m3u8">>]>>,
     guides |-> <<GuideA("early")>>,
     logos |-> << >>]
Revision2 == [Revision1 EXCEPT !.guides = <<GuideA("late")>>]
RemoteContents == {Revision1, Revision2}

(* Clock advances that reach both sides of each expiry instant. *)
ClockSteps == {1, TTL - 1, LOGOS_TTL - 1}

----------------------------------------------------------------------------
(* The caches, lines 39-69 *)

Calls == 1..MaxCalls
LogoCalls == 1..MaxLogoCalls

(* getData, line 49: if (cache.channels && Date.now() - lastFetch < TTL) *)
Fresh_offByOne(cch, lf, t) == cch.channels # None /\ t - lf <= TTL
Fresh(cch, lf, t) == cch.channels # None /\ t - lf < TTL

(* fetchLogos, line 63 *)
LogosFresh(lc, lf, t) == lc # None /\ t - lf < LOGOS_TTL

(* getData, lines 51-57: the cache is assigned once, as a whole object,   *)
(* after Promise.all has resolved with all three responses.               *)
WriteCache_partial(cch, results) ==
    [k \in Kinds |-> IF results[k] # None THEN results[k] ELSE cch[k]]
WriteCache_firstWins(cch, results) ==
    IF (\A k \in Kinds : results[k] # None) /\ cch.channels = None
    THEN [k \in Kinds |-> results[k]] ELSE cch
WriteCache(cch, results) ==
    IF \A k \in Kinds : results[k] # None THEN [k \in Kinds |-> results[k]] ELSE cch

(* Who awaits a getData() invocation: a request handler that uses the     *)
(* result once (/, /manifest.json, /meta, /stream), the catalog handler   *)
(* at line 290, or getGuideInfo for the idx-th channel of a catalog.      *)
Request == [who |-> "request", idx |-> 0]
CatalogFirst == [who |-> "catalog", idx |-> 0]
GuideOf(i) == [who |-> "guide", idx |-> i]

NoOutcome == [how |-> "none", cycle |-> 0, owner |-> Request, value |-> None,
              replaced |-> None, overlapped |-> FALSE]
IdleHandler == [pc |-> "idle", id |-> << >>, extra |-> << >>, snap |-> None,
                results |-> << >>, guides |-> << >>, waiting |-> {}, cycles |-> 0]

(* The catalog handler's locals after the getData() invocation awaited by *)
(* own has settled (how: hit, refreshed or error) with value.             *)
Resume(hh, own, how, value) ==
    IF hh.pc = "first" /\ own.who = "catalog"
    THEN IF how = "error" THEN [hh EXCEPT !.pc = "error"]
         ELSE [hh EXCEPT !.pc = "filter", !.snap = value]
    ELSE IF hh.pc = "guides" /\ own.who = "guide"
    THEN IF how = "error" THEN [hh EXCEPT !.pc = "error"]
         ELSE [hh EXCEPT !.guides[own.idx] = Some(value[1].guides),
                         !.waiting = hh.waiting \ {own.idx},
                         !.pc = IF hh.waiting \ {own.idx} = {} THEN "respond" ELSE "guides"]
    ELSE hh

(* A continuation of the catalog handler is about to run: nothing else    *)
(* runs before it, and only the time its own code takes passes.           *)
Busy == h.pc \in {"filter", "respond"}

InitEnv ==
    /\ now = 0
    /\ nticks = 0
    /\ remote = Revision1

InitCache ==
    /\ cache = [k \in Kinds |-> None]
    /\ lastFetch = 0
    /\ pc = [c \in Calls |-> "idle"]
    /\ owner = [c \in Calls |-> Request]
    /\ got = [c \in Calls |-> [k \in Kinds |-> None]]
    /\ cyc = [c \in Calls |-> 0]
    /\ seen = [c \in Calls |-> {}]
    /\ nGets = [k \in Kinds |-> 0]
    /\ lastWriter = 0
    /\ outcome = NoOutcome

InitLogos ==
    /\ logosCache = None
    /\ logosLastFetch = 0
    /\ lpc = [c \in LogoCalls |-> "idle"]
    /\ nLogoGets = 0
    /\ loutcome = [how |-> "none", value |-> None]

DefaultConfig == [countries |-> << >>, genres |-> << >>]
NoFile == [state |-> "absent", content |-> DefaultConfig]

InitConfig ==
    /\ config = DefaultConfig
    /\ file = NoFile
    /\ lastSaved = None

InitRequests ==
    /\ h = IdleHandler
    /\ req = [kind |-> "none"]
    /\ resp = [kind |-> "none"]

Init == InitEnv /\ InitCache /\ InitLogos /\ InitConfig /\ InitRequests

(* The clock advances between any two steps of the program. *)
Tick(d) ==
    /\ nticks < MaxTicks
    /\ Busy => d = 1
    /\ now' = now + d
    /\ nticks' = nticks + 1
    /\ UNCHANGED <<remote, cacheVars, logoVars, confVars, reqVars>>

(* The upstream publishes new content. *)
RemoteChange(r) ==
    /\ r # remote
    /\ remote' = r
    /\ UNCHANGED <<now, nticks, cacheVars, logoVars, confVars, reqVars>>

(* getData() is entered by own (lines 48-55): the synchronous part, up to *)
(* the return of line 49 or the await of line 51, for which the lowest    *)
(* free slot c holds the invocation.  hh: the catalog handler's locals.   *)
EnterGetData(c, own, hh) ==
    /\ IF Fresh(cache, lastFetch, now)
       THEN /\ c = 1
            /\ outcome' = [how |-> "hit", cycle |-> 0, owner |-> own, value |-> Some(cache),
                           replaced |-> None, overlapped |-> FALSE]
            /\ h' = Resume(hh, own, "hit", Some(cache))
            /\ UNCHANGED <<pc, owner, cyc, seen, nGets>>
       ELSE /\ pc[c] = "idle"
            /\ \A d \in Calls : d < c => pc[d] = "fetching"
            /\ nGets["channels"] < MaxCycles
            /\ pc' = [pc EXCEPT ![c] = "fetching"]
            /\ owner' = [owner EXCEPT ![c] = own]
            /\ cyc' = [cyc EXCEPT ![c] = nGets["channels"] + 1]
            /\ seen' = [seen EXCEPT ![c] = {cyc[d] : d \in {e \in Calls : pc[e] = "fetching"}}]
            /\ nGets' = [k \in Kinds |-> nGets[k] + 1]
            /\ h' = IF own = Request THEN hh ELSE [hh EXCEPT !.cycles = hh.cycles + 1]
            /\ UNCHANGED outcome
    /\ UNCHANGED <<cache, lastFetch, got, lastWriter>>

(* A handler that uses the data once calls getData(). *)
GetDataCall(c) ==
    /\ ~Busy
    /\ EnterGetData(c, Request, h)
    /\ UNCHANGED <<envVars, logoVars, confVars, req, resp>>

(* Promise.all rejects (line 51): getData throws, nothing else runs. *)
Rejected_fallback(c) ==
    /\ outcome' = [how |-> "hit", cycle |-> cyc[c], owner |-> owner[c], value |-> Some(cache),
                   replaced |-> None, overlapped |-> FALSE]
    /\ h' = Resume(h, owner[c], "hit", Some(cache))
Rejected(c) ==
    /\ outcome' = [how |-> "error", cycle |-> cyc[c], owner |-> owner[c], value |-> None,
                   replaced |-> None, overlapped |-> FALSE]
    /\ h' = Resume(h, owner[c], "error", None)

(* The slot of an invocation that has settled. *)
Settled(c) ==
    /\ pc' = [pc EXCEPT ![c] = "idle"]
    /\ owner' = [owner EXCEPT ![c] = Request]
    /\ got' = [got EXCEPT ![c] = [j \in Kinds |-> None]]
    /\ cyc' = [cyc EXCEPT ![c] = 0]
    /\ seen' = [seen EXCEPT ![c] = {}]

(* One of the three GETs of invocation c fails: Promise.all rejects at    *)
(* once, and the responses still outstanding are discarded as they come.  *)
GetFails(c, k) ==
    /\ ~Busy
    /\ pc[c] = "fetching"
    /\ got[c][k] = None
    /\ Rejected(c)
    /\ Settled(c)
    /\ UNCHANGED <<cache, lastFetch, nGets, lastWriter, envVars, logoVars, confVars, req, resp>>

(* One of the three GETs of invocation c succeeds; with the last of them   *)
(* Promise.all resolves and lines 57-59 run.                              *)
GetSucceeds(c, k) ==
    /\ ~Busy
    /\ pc[c] = "fetching"
    /\ got[c][k] = None
    /\ LET results == [got[c] EXCEPT ![k] = Some([cycle |-> cyc[c], data |-> remote[k]])]
       IN /\ cache' = WriteCache(cache, results)
          /\ IF \A j \in Kinds : results[j] # None
             THEN /\ lastFetch' = now
                  /\ lastWriter' = cyc[c]
                  /\ outcome' = [how |-> "refreshed", cycle |-> cyc[c], owner |-> owner[c],
                                 value |-> Some(cache'), replaced |-> Some(cache),
                                 overlapped |-> lastWriter \in seen[c] \/ lastWriter > cyc[c]]
                  /\ h' = Resume(h, owner[c], "refreshed", Some(cache'))
                  /\ Settled(c)
             ELSE /\ got' = [got EXCEPT ![c] = results]
                  /\ UNCHANGED <<lastFetch, lastWriter, outcome, h, pc, owner, cyc, seen>>
    /\ UNCHANGED <<nGets, envVars, logoVars, confVars, req, resp>>

(* fetchLogos() is entered (lines 62-65). *)
FetchLogosCall(c) ==
    /\ ~Busy
    /\ lpc[c] = "idle"
    /\ IF LogosFresh(logosCache, logosLastFetch, now)
       THEN /\ loutcome' = [how |-> "hit", value |-> logosCache]
            /\ UNCHANGED <<lpc, nLogoGets>>
       ELSE /\ nLogoGets < MaxCycles
            /\ lpc' = [lpc EXCEPT ![c] = "fetching"]
            /\ nLogoGets' = nLogoGets + 1
            /\ UNCHANGED loutcome
    /\ UNCHANGED <<logosCache, logosLastFetch, envVars, cacheVars, confVars, reqVars>>

(* The GET of logos.json succeeds (lines 66-68). *)
LogosSucceeds(c) ==
    /\ ~Busy
    /\ lpc[c] = "fetching"
    /\ logosCache' = Some([cycle |-> nLogoGets, data |-> remote.logos])
    /\ logosLastFetch' = now
    /\ lpc' = [lpc EXCEPT ![c] = "idle"]
    /\ loutcome' = [how |-> "refreshed", value |-> logosCache']
    /\ UNCHANGED <<nLogoGets, envVars, cacheVars, confVars, reqVars>>

(* The GET of logos.json fails: fetchLogos throws at line 65. *)
LogosFails(c) ==
    /\ ~Busy
    /\ lpc[c] = "fetching"
    /\ lpc' = [lpc EXCEPT ![c] = "idle"]
    /\ loutcome' = [how |-> "error", value |-> None]
    /\ UNCHANGED <<logosCache, logosLastFetch, nLogoGets, envVars, cacheVars, confVars, reqVars>>

----------------------------------------------------------------------------
(* The handlers, lines 254-340 *)

Data(entry) == entry[1].data
Logos == IF logosCache = None THEN << >> ELSE Data(logosCache)

(* getPoster's call of fetchLogos() (line 75) when the entry is fresh (line 63). *)
ReadLogos(needed) ==
    /\ needed => LogosFresh(logosCache, logosLastFetch, now)
    /\ loutcome' = IF needed THEN [how |-> "hit", value |-> logosCache] ELSE loutcome
    /\ UNCHANGED <<logosCache, logosLastFetch, lpc, nLogoGets>>

(* getGuideInfo + extractGuideDetails for one channel (lines 120-123, 310-311), *)
(* given the guides of the object getData() returned.                          *)
DetailsFor(channelId, guides) ==
    LET Of(g) == g.channel = channelId
    IN extractGuideDetails(Find(guides, Of))

(* GET /catalog/:type/:id/:extra?.json is dispatched: lines 288-290. *)
CatalogStart(id, extra) ==
    /\ ~Busy
    /\ h.pc \in {"idle", "done", "error"}
    /\ \A c \in Calls : pc[c] = "fetching" => owner[c] = Request
    /\ req' = [kind |-> "catalog", id |-> id, extra |-> extra]
    /\ \E c \in Calls :
          EnterGetData(c, CatalogFirst,
                       [IdleHandler EXCEPT !.pc = "first", !.id = id, !.extra = extra])
    /\ resp' = [kind |-> "none"]
    /\ UNCHANGED <<envVars, logoVars, confVars>>

(* The free slots, lowest first. *)
FreeSlots == SelectSeq([c \in Calls |-> c], LAMBDA c : pc[c] = "idle")

(* The handler resumes with the data: lines 292-313, up to the awaits of  *)
(* getGuideInfo, which every surviving channel's callback reaches before  *)
(* any of them continues.                                                 *)
CatalogFilter ==
    /\ h.pc = "filter"
    /\ LET results == CatalogResults(Data(h.snap[1].channels), Data(h.snap[1].streams),
                                     h.id, Params(h.extra), config.genres)
           n == Len(results)
       IN IF n = 0
          THEN /\ h' = [h EXCEPT !.pc = "done"]
               /\ resp' = [kind |-> "metas", body |-> << >>]
               /\ UNCHANGED cacheVars
          ELSE IF Fresh(cache, lastFetch, now)
          THEN /\ h' = [h EXCEPT !.pc = "respond", !.results = results,
                                 !.guides = [i \in 1..n |-> Some(cache.guides)]]
               /\ outcome' = [how |-> "hit", cycle |-> 0, owner |-> GuideOf(n),
                              value |-> Some(cache), replaced |-> None, overlapped |-> FALSE]
               /\ UNCHANGED <<cache, lastFetch, pc, owner, got, cyc, seen, nGets, lastWriter, resp>>
          ELSE /\ Len(FreeSlots) >= n
               /\ nGets["channels"] + n <= MaxCycles
               /\ LET slot == [i \in 1..n |-> FreeSlots[i]]
                      used == {slot[i] : i \in 1..n}
                      idx(c) == CHOOSE i \in 1..n : slot[i] = c
                      before == {cyc[d] : d \in {e \in Calls : pc[e] = "fetching"}}
                  IN /\ pc' = [c \in Calls |-> IF c \in used THEN "fetching" ELSE pc[c]]
                     /\ owner' = [c \in Calls |-> IF c \in used THEN GuideOf(idx(c)) ELSE owner[c]]
                     /\ cyc' = [c \in Calls |->
                                  IF c \in used THEN nGets["channels"] + idx(c) ELSE cyc[c]]
                     /\ seen' = [c \in Calls |->
                                  IF c \in used
                                  THEN before \cup {nGets["channels"] + j : j \in 1..(idx(c) - 1)}
                                  ELSE seen[c]]
               /\ nGets' = [k \in Kinds |-> nGets[k] + n]
               /\ h' = [h EXCEPT !.pc = "guides", !.results = results,
                                 !.guides = [i \in 1..n |-> None],
                                 !.waiting = 1..n, !.cycles = h.cycles + n]
               /\ UNCHANGED <<cache, lastFetch, got, lastWriter, outcome, resp>>
    /\ UNCHANGED <<envVars, logoVars, confVars, req>>

(* Every getGuideInfo has returned: lines 311-315.  getPoster reads the   *)
(* logos through fetchLogos(), here from a logos entry that is fresh.     *)
CatalogRespond ==
    /\ h.pc = "respond"
    /\ LET details == [i \in 1..Len(h.results) |->
                          DetailsFor(h.results[i].id, Data(h.guides[i][1]))]
       IN /\ ReadLogos(\E i \in 1..Len(h.results) : NeedsLogos(details[i]))
          /\ resp' = [kind |-> "metas",
                      body |-> [i \in 1..Len(h.results) |->
                                   toMeta(h.results[i], details[i], Logos)]]
    /\ h' = [h EXCEPT !.pc = "done"]
    /\ UNCHANGED <<envVars, cacheVars, confVars, req>>

IdPrefix == <<"iptv-">>

(* The channel id a meta or stream request asks for, lines 320 and 333. *)
ChannelIdOf(id) == ReplaceFirst(id, IdPrefix)

(* GET /meta/:type/:id.json, lines 319-329, served from entries that are  *)
(* fresh.  req keeps, with the request, the handler's local details.      *)
MetaRequest(id) ==
    /\ ~Busy
    /\ Fresh(cache, lastFetch, now)
    /\ LET channelId == ChannelIdOf(id)
           Is(c) == c.id = channelId
           channel == Find(Data(cache.channels), Is)
       IN IF channel = None
          THEN /\ resp' = [kind |-> "meta", body |-> None]
               /\ req' = [kind |-> "meta", id |-> id, details |-> None]
               /\ UNCHANGED logoVars
          ELSE LET details == DetailsFor(channelId, Data(cache.guides))
               IN /\ ReadLogos(NeedsLogos(details))
                  /\ resp' = [kind |-> "meta", body |-> Some(toMeta(channel[1], details, Logos))]
                  /\ req' = [kind |-> "meta", id |-> id, details |-> details]
    /\ UNCHANGED <<envVars, cacheVars, confVars, h>>

(* GET /stream/:type/:id.json, lines 332-340, served from a fresh entry. *)
StreamRequest(id) ==
    /\ ~Busy
    /\ Fresh(cache, lastFetch, now)
    /\ LET channelId == ChannelIdOf(id)
           Is(st) == st.channel = channelId
           stream == Find(Data(cache.streams), Is)
       IN resp' = [kind |-> "streams",
                   body |-> IF stream # None
                            THEN <<[url |-> stream[1].url, title |-> <<"Live">>]>>
                            ELSE << >>]
    /\ req' = [kind |-> "stream", id |-> id]
    /\ UNCHANGED <<envVars, cacheVars, logoVars, confVars, h>>

(* A form field that is not a string: qs and express.json() both produce arrays. *)
ArrayValue == <<"(array)">>

(* POST /configure, lines 254-259, with saveConfig, lines 22-24.          *)
(* write: what fs.writeFileSync does: "ok"; "refused", it throws before   *)
(* the file is touched (EACCES, EROFS); "torn", it throws after the file  *)
(* was truncated (ENOSPC, EIO).                                            *)
Configure(body, write) ==
    /\ ~Busy
    /\ req' = [kind |-> "configure"]
    /\ IF body.countries = ArrayValue
       THEN /\ resp' = [kind |-> "error"]
            /\ UNCHANGED confVars
       ELSE IF body.genres = ArrayValue
       THEN /\ config' = [config EXCEPT !.countries = ParseList(body.countries)]
            /\ resp' = [kind |-> "error"]
            /\ UNCHANGED <<file, lastSaved>>
       ELSE /\ config' = [countries |-> ParseList(body.countries),
                          genres |-> ParseList(body.genres)]
            /\ IF write = "ok"
               THEN /\ file' = [state |-> "valid", content |-> config']
                    /\ lastSaved' = Some(config')
                    /\ resp' = [kind |-> "redirect"]
               ELSE /\ file' = IF write = "refused" THEN file
                               ELSE [state |-> "corrupt", content |-> DefaultConfig]
                    /\ resp' = [kind |-> "error"]
                    /\ UNCHANGED lastSaved
    /\ UNCHANGED <<envVars, cacheVars, logoVars, h>>

(* No getData() or fetchLogos() invocation is awaiting its responses. *)
Quiet ==
    /\ \A c \in Calls : pc[c] = "idle"
    /\ \A c \in LogoCalls : lpc[c] = "idle"

(* Calls that do not overlap: each is made when the previous has settled. *)
SeqGetDataCall == Quiet /\ GetDataCall(1)
SeqFetchLogosCall == Quiet /\ FetchLogosCall(1)

NextSeq ==
    \/ \E d \in ClockSteps : Tick(d)
    \/ SeqGetDataCall
    \/ \E c \in Calls, k \in Kinds : GetFails(c, k)
    \/ \E c \in Calls, k \in Kinds : GetSucceeds(c, k)
    \/ SeqFetchLogosCall
    \/ \E c \in LogoCalls : LogosSucceeds(c)
    \/ \E c \in LogoCalls : LogosFails(c)

SpecSeq == Init /\ [][NextSeq]_vars

(* Requests handled concurrently: getData() invocations overlap freely. *)
Next ==
    \/ Tick(TTL)
    \/ \E r \in RemoteContents : RemoteChange(r)
    \/ \E c \in Calls : GetDataCall(c)
    \/ \E c \in Calls, k \in Kinds : GetFails(c, k)
    \/ \E c \in Calls, k \in Kinds : GetSucceeds(c, k)

Spec == Init /\ [][Next]_vars

----------------------------------------------------------------------------
(* The catalog handler among other requests, refreshes and expiry. *)

(* Both entries as a first request's fetches, made at time 0, left them. *)
Warm(content) ==
    /\ remote = content
    /\ cache = [k \in Kinds |-> Some([cycle |-> 1, data |-> content[k]])]
    /\ lastFetch = 0
    /\ nGets = [k \in Kinds |-> 1]
    /\ lastWriter = 1
    /\ pc = [c \in Calls |-> "idle"]
    /\ owner = [c \in Calls |-> Request]
    /\ got = [c \in Calls |-> [k \in Kinds |-> None]]
    /\ cyc = [c \in Calls |-> 0]
    /\ seen = [c \in Calls |-> {}]
    /\ outcome = NoOutcome
    /\ logosCache = Some([cycle |-> 1, data |-> content.logos])
    /\ logosLastFetch = 0
    /\ lpc = [c \in LogoCalls |-> "idle"]
    /\ nLogoGets = 1
    /\ loutcome = [how |-> "none", value |-> None]
    /\ now = 0
    /\ nticks = 0

AllId == <<"iptv-", "all">>

InitRace == Warm(Revision1) /\ InitConfig /\ InitRequests

NextRace ==
    \/ \E d \in {1, TTL - 1} : Tick(d)
    \/ \E r \in RemoteContents : RemoteChange(r)
    \/ \E c \in Calls : GetDataCall(c)
    \/ \E c \in Calls, k \in Kinds : GetFails(c, k)
    \/ \E c \in Calls, k \in Kinds : GetSucceeds(c, k)
    \/ CatalogStart(AllId, << >>)
    \/ CatalogFilter
    \/ CatalogRespond

SpecRace == InitRace /\ [][NextRace]_vars

----------------------------------------------------------------------------
(* Claims about the two caches under calls that do not overlap (SpecSeq). *)

NoTrio == \A k \in Kinds : cache[k] = None
TrioStale == NoTrio \/ now - lastFetch >= TTL
LogosStale == logosCache = None \/ now - logosLastFetch >= LOGOS_TTL

(* Steps in which getData / fetchLogos starts its GETs, returns the cached *)
(* value, or settles after its GETs.                                       *)
DataFetchStarts == \E c \in Calls : pc[c] = "idle" /\ pc'[c] = "fetching"
DataHit == outcome' # outcome /\ outcome'.how = "hit"
DataSettles(c) == pc[c] = "fetching" /\ pc'[c] = "idle"
LogosFetchStarts == \E c \in LogoCalls : lpc[c] = "idle" /\ lpc'[c] = "fetching"
LogosHit == loutcome' # loutcome /\ loutcome'.how = "hit"
LogosSettles(c) == lpc[c] = "fetching" /\ lpc'[c] = "idle"

(* What a call does when it is entered: network access exactly when the   *)
(* entry is stale, then one GET per endpoint and no other; otherwise the  *)
(* cached value, with nothing changed.                                    *)
EntryRule ==
    /\ DataFetchStarts =>
          /\ TrioStale
          /\ nGets' = [k \in Kinds |-> nGets[k] + 1]
          /\ cache' = cache /\ lastFetch' = lastFetch
    /\ DataHit =>
          /\ ~TrioStale
          /\ outcome'.value = Some(cache)
          /\ cache' = cache /\ lastFetch' = lastFetch
    /\ ~DataFetchStarts => nGets' = nGets
    /\ LogosFetchStarts =>
          /\ LogosStale
          /\ nLogoGets' = nLogoGets + 1
          /\ logosCache' = logosCache /\ logosLastFetch' = logosLastFetch
    /\ LogosHit =>
          /\ ~LogosStale
          /\ loutcome'.value = logosCache
          /\ logosCache' = logosCache /\ logosLastFetch' = logosLastFetch
    /\ ~LogosFetchStarts => nLogoGets' = nLogoGets

(* A refresh whose responses all arrived stores them and returns them. *)
RefreshStores ==
    /\ \A c \in Calls : DataSettles(c) /\ outcome'.how = "refreshed" =>
          /\ \A k \in Kinds : cache'[k] # None /\ cache'[k][1].cycle = cyc[c]
          /\ lastFetch' = now
          /\ outcome'.value = Some(cache')
    /\ \A c \in LogoCalls : LogosSettles(c) /\ loutcome'.how = "refreshed" =>
          /\ logosCache' # None /\ logosCache'[1].cycle = nLogoGets
          /\ logosLastFetch' = now
          /\ loutcome'.value = logosCache'

(* C1 as stated: a stale call performs exactly one fetch cycle and        *)
(* updates value and timestamp, whatever the fetch's outcome.             *)
C1_AsStated ==
    [][ /\ EntryRule
        /\ RefreshStores
        /\ \A c \in Calls : DataSettles(c) => outcome'.how = "refreshed"
        /\ \A c \in LogoCalls : LogosSettles(c) => loutcome'.how = "refreshed"
      ]_vars

(* C1, amended: for each of the two cache entries, over non-overlapping   *)
(* calls and clock advances, a call performs network access if and only   *)
(* if no cached value exists or now - lastFetch >= ttl; it then issues    *)
(* exactly one GET per endpoint, and updates value and timestamp if every *)
(* GET succeeds, leaving both unchanged if one fails; otherwise it        *)
(* returns the cached value with no fetch and changes nothing.            *)
C1_CacheTtl ==
    [][ /\ EntryRule
        /\ RefreshStores
        /\ \A c \in Calls : DataSettles(c) /\ outcome'.how # "refreshed" =>
              /\ outcome'.how = "error" /\ outcome'.value = None
              /\ cache' = cache /\ lastFetch' = lastFetch
        /\ \A c \in LogoCalls : LogosSettles(c) /\ loutcome'.how # "refreshed" =>
              /\ loutcome'.how = "error" /\ loutcome'.value = None
              /\ logosCache' = logosCache /\ logosLastFetch' = logosLastFetch
      ]_vars

(* Both entries have been fetched, served from memory one millisecond     *)
(* before their expiry, and fetched again at it.                          *)
C1_Witness ==
    /\ nGets["channels"] = 2 /\ lastWriter = 2 /\ lastFetch >= TTL
    /\ outcome.how = "refreshed"
    /\ nLogoGets = 2 /\ logosLastFetch >= LOGOS_TTL
    /\ loutcome.how = "refreshed"

----------------------------------------------------------------------------
(* Claims about getData under overlapping requests (Spec). *)

(* C2: the cached channels, streams and guides are all absent, or all     *)
(* three come from the same fetch cycle.                                  *)
C2_TrioAtomic ==
    \/ NoTrio
    \/ \A k \in Kinds : cache[k] # None /\ cache[k][1].cycle = cache["channels"][1].cycle

(* A trio is cached while another refresh has received part of its        *)
(* responses and a third has failed.                                      *)
C2_Witness ==
    /\ ~NoTrio
    /\ \E c \in Calls : pc[c] = "fetching" /\ \E k \in Kinds : got[c][k] # None
    /\ outcome.how = "error"

(* C3: when a refresh is needed and one of the three GETs fails, the call *)
(* ends in an error: nothing is returned (not the expired trio), no GET   *)
(* is issued again, cache and lastFetch stay as they were; and a later    *)
(* call that finds the cache stale fetches again.                         *)
C3_FailurePropagates ==
    [][ /\ \A c \in Calls :
              DataSettles(c) /\ (\E k \in Kinds : got[c][k] = None /\ cache'[k] = cache[k]) =>
                 /\ outcome'.how = "error" /\ outcome'.value = None
                 /\ outcome'.cycle = cyc[c]
                 /\ cache' = cache /\ lastFetch' = lastFetch
                 /\ nGets' = nGets
                 /\ \A d \in Calls : pc'[d] = "fetching" => pc[d] = "fetching"
        /\ outcome.how = "error" /\ (DataHit \/ DataFetchStarts) =>
              (TrioStale => DataFetchStarts)
      ]_vars

(* A refresh of an expired trio has failed, the trio is still cached and  *)
(* expired, and a later call is fetching again.                           *)
C3_Witness ==
    /\ ~NoTrio /\ now - lastFetch >= TTL
    /\ outcome.how = "error" /\ outcome.value = None
    /\ \E c \in Calls : pc[c] = "fetching" /\ cyc[c] > outcome.cycle

(* The contents of a trio, without the marks of its fetch cycle. *)
Contents(trio) == [k \in Kinds |-> Data(trio[1][k])]

(* C4 as stated: overlapping refreshes produce equivalent results, so    *)
(* the cached trio is the same whichever writes last.                     *)
C4_AsStated ==
    outcome.how = "refreshed" /\ outcome.overlapped =>
        Contents(outcome.value) = Contents(outcome.replaced)

(* C4, amended: overlapping refreshes are not deduplicated; each issues   *)
(* its own fetch cycle and returns the trio of that cycle, and the cached *)
(* trio is the one stored by the refresh that completed last.             *)
C4_LastWriteWins ==
    /\ outcome.how = "refreshed" =>
          /\ \A k \in Kinds : outcome.value[1][k] # None
                              /\ outcome.value[1][k][1].cycle = outcome.cycle
          /\ lastWriter = outcome.cycle
    /\ IF lastWriter = 0 THEN NoTrio
       ELSE \A k \in Kinds : cache[k] # None /\ cache[k][1].cycle = lastWriter
    /\ \A c, d \in Calls : c # d /\ pc[c] = "fetching" /\ pc[d] = "fetching" => cyc[c] # cyc[d]
    /\ \A c \in Calls : pc[c] = "fetching" => cyc[c] \in 1..nGets["channels"]

(* An overlapping refresh has replaced a trio with different contents. *)
C4_Witness ==
    /\ outcome.how = "refreshed" /\ outcome.overlapped
    /\ Contents(outcome.value) # Contents(outcome.replaced)

----------------------------------------------------------------------------
(* Claims about the catalog handler among other activity (SpecRace). *)

(* C10: a catalog response is built from one trio: the guides used for    *)
(* its metas come from the fetch cycle of the channels and streams it was *)
(* filtered from, and the request starts at most one fetch cycle.         *)
C10_SingleSnapshot ==
    /\ h.cycles <= 1
    /\ h.pc = "done" =>
          \A i \in 1..Len(h.results) :
             /\ h.guides[i][1][1].cycle = h.snap[1].channels[1].cycle
             /\ h.guides[i][1][1].cycle = h.snap[1].streams[1].cycle

----------------------------------------------------------------------------
(* The handlers on every input, each served from entries that are fresh. *)

(* The lists of at most n different elements of pool. *)
Lists(pool, n) ==
    {q \in UNION {[1..k -> pool] : k \in 0..n} :
        \A i, j \in 1..Len(q) : q[i] = q[j] => i = j}

(* The settings as loaded at startup from a file holding conf, lines 17-20. *)
Loaded(conf) ==
    /\ config = conf
    /\ file = [state |-> "valid", content |-> conf]
    /\ lastSaved = Some(conf)

(* extractGuideDetails on every shape of guide record, through /meta. *)
GuideFieldValues == {Undefined, Null, EmptyStr, <<"show">>, <<"0">>}
GuideInputs ==
    {<< >>} \cup
    {<<[channel |-> <<"a">>, now |-> n, next |-> x, image |-> i]>> :
        n \in GuideFieldValues, x \in GuideFieldValues, i \in GuideFieldValues}

InitGuide ==
    /\ \E g \in GuideInputs : Warm([Revision1 EXCEPT !.guides = g])
    /\ InitConfig /\ InitRequests

NextGuide == \E id \in {<<"iptv-", "a">>, <<"iptv-", "b">>} : MetaRequest(id)

SpecGuide == InitGuide /\ [][NextGuide]_vars

(* getPoster on every channel, guide image and logo list, through /meta. *)
Logo(ch, tags, format, width, url) ==
    [channel |-> ch, tags |-> tags, format |-> format, width |-> width, url |-> <<url>>]
LogoPool ==
    { Logo(<<"a">>, << <<"horizontal">> >>, <<"png">>, 1, "a-h-1.png"),
      Logo(<<"a">>, << <<"color">>, <<"horizontal">> >>, Undefined, 2, "a-h-2"),
      Logo(<<"a">>, << <<"horizontal">> >>, <<"jpeg">>, 2, "a-h-2.jpg"),
      Logo(<<"a">>, << <<"horizontal">> >>, <<"SVG">>, 3, "a-h-3.svg"),
      Logo(<<"a">>, << <<"vertical">> >>, <<"png">>, 3, "a-v-3.png"),
      Logo(<<"a">>, NoArray, <<"png">>, 3, "a-3.png"),
      Logo(<<"b">>, << <<"horizontal">> >>, <<"png">>, 3, "b-h-3.png") }
PosterChannels ==
    {[ChannelA EXCEPT !.id = i, !.logo = l] :
        i \in {<<"a">>, EmptyStr},
        l \in {Undefined, EmptyStr, <<"a", ".svg">>, <<"a", ".png">>}}
PosterGuides(ch) ==
    {<< >>} \cup
    {<<[channel |-> ch.id, now |-> <<"show">>, next |-> Undefined, image |-> i]>> :
        i \in {Undefined, EmptyStr, <<"show", ".jpg">>}}

InitPoster ==
    /\ \E ch \in PosterChannels : \E g \in PosterGuides(ch) :
       \E l \in Lists(LogoPool, MaxLogos) :
          Warm([channels |-> <<ch>>, streams |-> << >>, guides |-> g, logos |-> l])
    /\ InitConfig /\ InitRequests

NextPoster == \E id \in {<<"iptv-", "a">>, <<"iptv-">>} : MetaRequest(id)

SpecPoster == InitPoster /\ [][NextPoster]_vars

(* /meta and /stream on every id, over every channel and stream list. *)
ChannelXA == [ChannelB EXCEPT !.id = <<"x", "a">>, !.name = <<"X", "A">>]
Stream(ch, url) == [channel |-> ch, url |-> <<url>>]
StreamPool ==
    { Stream(<<"a">>, "a1.m3u8"), Stream(<<"a">>, "a2.m3u8"),
      Stream(<<"b">>, "b1.m3u8"), Stream(<<"x", "a">>, "xa1.m3u8") }
LookupIds ==
    { <<"iptv-", "a">>, <<"iptv-", "b">>, <<"iptv-", "zz">>,
      <<"a">>, <<"x", "iptv-", "a">>, <<"iptv-", "x", "a">> }

InitLookup ==
    /\ \E chs \in Lists({ChannelA, ChannelB, ChannelXA}, MaxChannels) :
       \E sts \in Lists(StreamPool, MaxChannels) :
          Warm([Revision1 EXCEPT !.channels = chs, !.streams = sts])
    /\ InitConfig /\ InitRequests

NextLookup ==
    \/ \E id \in LookupIds : MetaRequest(id)
    \/ \E id \in LookupIds : StreamRequest(id)

SpecLookup == InitLookup /\ [][NextLookup]_vars

(* /catalog on every id and extra, over every channel list, stream list   *)
(* and genre setting.                                                     *)
CatA == [id |-> <<"a">>, name |-> <<"A", "b">>, country |-> <<"U">>,
         categories |-> << <<"News">> >>, logo |-> Undefined]
CatB == [id |-> <<"b">>, name |-> <<"B">>, country |-> <<"D">>,
         categories |-> << <<"Kids">>, <<"News">> >>, logo |-> Undefined]
CatC == [id |-> <<"c">>, name |-> <<"a", "B", "d">>, country |-> <<"U">>,
         categories |-> NoArray, logo |-> Undefined]
CatD == [id |-> <<"d">>, name |-> <<"D">>, country |-> <<"u">>,
         categories |-> << <<"Kids">> >>, logo |-> Undefined]
CatalogStreams ==
    { << >>,
      <<Stream(<<"a">>, "a1.m3u8")>>,
      <<Stream(<<"b">>, "b1.m3u8"), Stream(<<"a">>, "a1.m3u8"), Stream(<<"a">>, "a2.m3u8")>>,
      <<Stream(<<"c">>, "c1.m3u8"), Stream(<<"d">>, "d1.m3u8"), Stream(<<"b">>, "b1.m3u8")>>,
      <<Stream(<<"d">>, "d1.m3u8"), Stream(<<"c">>, "c1.m3u8"),
        Stream(<<"b">>, "b1.m3u8"), Stream(<<"a">>, "a1.m3u8")>> }
GenreSettings == { << >>, << <<"News">> >>, << <<"Sport">>, <<"Kids">> >> }
CatalogIds == { AllId, <<"iptv-", "country-", "u">>, <<"iptv-", "country-", "D">> }
Extras ==
    { << >>,
      << <<"genre", <<"News">>>> >>,
      << <<"genre", EmptyStr>> >>,
      << <<"search", <<"b">>>> >>,
      << <<"search", EmptyStr>> >>,
      << <<"search", <<"B">>>>, <<"genre", <<"News">>>> >>,
      << <<"genre", <<"Kids">>>>, <<"genre", <<"News">>>> >> }

InitCatalog ==
    /\ \E chs \in Lists({CatA, CatB, CatC, CatD}, MaxChannels) :
       \E sts \in CatalogStreams :
          Warm([Revision1 EXCEPT !.channels = chs, !.streams = sts])
    /\ \E g \in GenreSettings : Loaded([countries |-> << >>, genres |-> g])
    /\ InitRequests

NextCatalog ==
    \/ \E id \in CatalogIds, extra \in Extras : CatalogStart(id, extra)
    \/ CatalogFilter
    \/ CatalogRespond

SpecCatalog == InitCatalog /\ [][NextCatalog]_vars

(* POST /configure with every form body and every outcome of the write. *)
FieldInputs ==
    { Undefined, EmptyStr, <<"U">>, <<"U", ",", "D">>, <<",", "D", ",">>, ArrayValue }
Bodies == {[countries |-> c, genres |-> g] : c \in FieldInputs, g \in FieldInputs}
WriteOutcomes == {"ok", "refused", "torn"}

(* Startup, lines 17-20: the settings are those of config.json if it exists. *)
InitStore ==
    \/ InitConfig
    \/ Loaded([countries |-> << <<"U">> >>, genres |-> << <<"D">> >>])

InitConfigure == InitEnv /\ InitCache /\ InitLogos /\ InitStore /\ InitRequests

NextConfig == \E body \in Bodies, write \in WriteOutcomes : Configure(body, write)

SpecConfig == InitConfigure /\ [][NextConfig]_vars

----------------------------------------------------------------------------
(* Claims about the settings store (SpecConfig). *)

(* C5: the persisted settings are those of the last successful submission *)
(* as a whole, and the in-memory settings equal the persisted settings;   *)
(* a submission that fails to persist changes neither.                    *)
C5_SettingsPersisted ==
    /\ file.state # "corrupt"
    /\ lastSaved = None => file.state = "absent"
    /\ lastSaved # None => file.state = "valid" /\ file.content = lastSaved[1]
    /\ config = file.content

----------------------------------------------------------------------------
(* Claims about the catalog filter (SpecCatalog). *)

(* The channels a catalog request asks for, in the claim's five rules. *)
Wanted(channels, streams, id, params, genres) ==
    LET Keep(c) ==
          /\ \E i \in 1..Len(streams) : streams[i].channel = c.id
          /\ StartsWith(id, CountryPrefix) =>
                c.country = ToUpperCase(StripPrefixOnly(id, CountryPrefix))
          /\ genres # << >> =>
                c.categories # NoArray /\ Range(c.categories) \cap Range(genres) # {}
          /\ Truthy(params.genre) =>
                c.categories # NoArray /\ params.genre \in Range(c.categories)
          /\ Truthy(params.search) =>
                \E i \in 1..Len(c.name) : \E j \in i..Len(c.name) :
                   ToLowerCase(SubSeq(c.name, i, j)) = ToLowerCase(params.search)
    IN SelectSeq(channels, Keep)

(* C6: the catalog response holds exactly one meta per channel that has a *)
(* stream record, is of the country of a country catalog, has a category  *)
(* in settings.genres if that is non-empty, has the genre if one is       *)
(* supplied, and has a name containing the search text, case              *)
(* insensitively, if one is supplied - and no other; in the order of the  *)
(* upstream channel list.  A genre or search given as the empty text      *)
(* counts as not supplied.                                                *)
C6_CatalogFilter ==
    h.pc = "done" /\ resp.kind = "metas" =>
        LET wanted == Wanted(Data(cache.channels), Data(cache.streams),
                             req.id, Params(req.extra), config.genres)
        IN /\ Len(resp.body) = Len(wanted)
           /\ \A i \in 1..Len(wanted) :
                 /\ resp.body[i].id = <<"iptv-">> \o wanted[i].id
                 /\ resp.body[i].name = wanted[i].name
           /\ \A i \in 1..Len(resp.body) :
                 \E j \in 1..Len(Data(cache.streams)) :
                    <<"iptv-">> \o Data(cache.streams)[j].channel = resp.body[i].id

(* A country catalog was asked for with a genre and a search text, under  *)
(* a genre setting; one channel passed every rule and another with a      *)
(* stream did not.                                                        *)
C6_Witness ==
    /\ h.pc = "done" /\ resp.kind = "metas"
    /\ req.id = <<"iptv-", "country-", "u">>
    /\ config.genres # << >>
    /\ Truthy(Params(req.extra).genre) /\ Truthy(Params(req.extra).search)
    /\ Len(resp.body) = 1 /\ resp.body[1].id = <<"iptv-", "a">>
    /\ Len(Data(cache.channels)) = 2
    /\ \A i \in 1..2 : \E j \in 1..Len(Data(cache.streams)) :
          Data(cache.streams)[j].channel = Data(cache.channels)[i].id

----------------------------------------------------------------------------
(* Claims about the meta and stream lookups (SpecLookup). *)

(* C7: a missing entity is a normal outcome: if the id, with its prefix   *)
(* stripped, is the id of no cached channel, /meta answers {meta: {}};    *)
(* if it is the channel of no stream record, /stream answers              *)
(* {streams: []}, and otherwise one element with the url of the first     *)
(* stream record of that channel and the title "Live".                    *)
C7_MissingEntity ==
    LET channelId == StripPrefixOnly(req.id, IdPrefix)
        channels == Data(cache.channels)
        streams == Data(cache.streams)
        at == {i \in 1..Len(streams) : streams[i].channel = channelId}
    IN /\ req.kind = "meta" /\ (\A i \in 1..Len(channels) : channels[i].id # channelId) =>
             resp.kind = "meta" /\ resp.body = None
       /\ req.kind = "stream" =>
             /\ resp.kind = "streams"
             /\ IF at = {} THEN resp.body = << >>
                ELSE resp.body = <<[url |-> streams[CHOOSE i \in at : \A j \in at : i <= j].url,
                                    title |-> <<"Live">>]>>

----------------------------------------------------------------------------
(* Claims about extractGuideDetails (SpecGuide). *)

(* The guide record of the channel a meta request asked for. *)
GuideAsked ==
    LET Of(g) == <<"iptv-">> \o g.channel = req.id
    IN Find(Data(cache.guides), Of)

(* v ?? d *)
Coalesce(v, d) == IF v = Null \/ v = Undefined THEN d ELSE v

(* C8 as stated: null for an absent guide, and otherwise the three fields *)
(* with defaults that replace only null and undefined; an empty string is *)
(* passed through unchanged.                                              *)
C8_AsStated ==
    req.kind = "meta" /\ resp.body # None =>
        req.details =
            IF GuideAsked = None THEN None
            ELSE Some([nowPlaying |-> Coalesce(GuideAsked[1].now, <<"Unknown">>),
                       next |-> Coalesce(GuideAsked[1].next, <<"Unknown">>),
                       currentShowImage |-> Coalesce(GuideAsked[1].image, Null)])

(* C8, amended: extractGuideDetails(guide) returns null when the guide is *)
(* absent, and otherwise {nowPlaying: guide.now || "Unknown", next:       *)
(* guide.next || "Unknown", currentShowImage: guide.image || null}: the   *)
(* defaults replace every field that is missing, null or an empty string, *)
(* and every other field is passed through unchanged.                     *)
C8_GuideDetails ==
    req.kind = "meta" /\ resp.body # None =>
        LET Field(v, d) == IF v \in {Undefined, Null, EmptyStr} THEN d ELSE v
        IN req.details =
              IF GuideAsked = None THEN None
              ELSE Some([nowPlaying |-> Field(GuideAsked[1].now, <<"Unknown">>),
                         next |-> Field(GuideAsked[1].next, <<"Unknown">>),
                         currentShowImage |-> Field(GuideAsked[1].image, Null)])

(* A guide with an empty now, a next and no image went through. *)
C8_Witness ==
    /\ req.kind = "meta" /\ resp.body # None /\ GuideAsked # None
    /\ GuideAsked[1].now = EmptyStr
    /\ GuideAsked[1].next = <<"show">>
    /\ GuideAsked[1].image = Undefined
    /\ req.details = Some([nowPlaying |-> <<"Unknown">>, next |-> <<"show">>,
                           currentShowImage |-> Null])

----------------------------------------------------------------------------
(* Claims about getPoster (SpecPoster). *)

(* The channel a meta request asked for, and the logos that qualify. *)
ChannelAsked == Data(cache.channels)[1]
Qualifying ==
    {i \in 1..Len(Logos) :
        /\ Logos[i].channel = ChannelAsked.id
        /\ Logos[i].tags # NoArray
        /\ \E t \in 1..Len(Logos[i].tags) : Logos[i].tags[t] = <<"horizontal">>
        /\ Logos[i].format \notin {<<"svg">>, <<"SVG">>}}

(* C9: the poster is the first applicable of: the current show's image,   *)
(* without the logos cache being read; the url of a greatest-width logo   *)
(* of this channel that is tagged horizontal and not SVG; the channel's   *)
(* own logo unless it is an SVG path; the URL templated from the channel  *)
(* id; the placeholder.                                                   *)
C9_PosterPriority ==
    req.kind = "meta" /\ resp.body # None =>
        LET poster == resp.body[1].poster
        IN IF req.details # None /\ Truthy(req.details[1].currentShowImage)
           THEN poster = req.details[1].currentShowImage /\ loutcome.how = "none"
           ELSE /\ loutcome.how = "hit"
                /\ IF Qualifying # {}
                   THEN \E i \in Qualifying :
                           /\ poster = Logos[i].url
                           /\ \A j \in Qualifying : Logos[j].width <= Logos[i].width
                   ELSE IF Truthy(ChannelAsked.logo)
                           /\ ChannelAsked.logo[Len(ChannelAsked.logo)] # ".svg"
                   THEN poster = ChannelAsked.logo
                   ELSE IF Truthy(ChannelAsked.id)
                   THEN poster = <<"https://iptv-org.github.io/logo/">>
                                 \o ChannelAsked.id \o <<".png">>
                   ELSE poster = <<"https://dl.strem.io/addon-background-landscape.jpg">>

(* The current show's image was chosen although a wider qualifying logo   *)
(* of the channel was cached.                                             *)
C9_Witness ==
    /\ req.kind = "meta" /\ resp.body # None
    /\ resp.body[1].poster = <<"show", ".jpg">>
    /\ \E i \in Qualifying : Logos[i].width = 2
    /\ Truthy(ChannelAsked.logo)
    /\ loutcome.how = "none"

====
